---- MODULE Spec2Model ----
(***************************************************************************)
(* Model of scripts/lighter_signer_bridge.py: a line-delimited JSON-RPC    *)
(* bridge in front of the Lighter signer shared library.                   *)
(*                                                                         *)
(* One iteration of main()'s loop is one action: it reads a line, runs the *)
(* router and the handler to completion (every backend call included) and  *)
(* prints the response.  The backend is an opaque library: what each of    *)
(* its calls returns is chosen nondeterministically.                       *)
(***************************************************************************)
EXTENDS Integers, Sequences, FiniteSets, TLC

VARIABLES
    pc,                 \* "startup" | "read" | "wrote" | "exited"
    exit_status,        \* "running" | "0" | "1"
    traceback,          \* TRUE once an uncaught exception killed the process
    startup_error,      \* "" or the cause of the failed start
    LIB,                \* "unloaded" | "loaded"
    _CLIENT_CONFIG,     \* dict: api_key_index -> config dict
    _INITIALISED_KEYS,  \* set of api_key_index
    line,               \* the input line of the current iteration
    written,            \* the responses printed in the current iteration
    calls,              \* the backend calls made in the current iteration
    raised,             \* TRUE when the handler of the current iteration raised
    created,            \* api_key_index -> number of successful LIB.CreateClient
    registrations,      \* api_key_index -> the successful LIB.CreateClient call
    in_progress,        \* statement by statement: the iteration in progress
    trace               \* statement by statement: what the loop has done so far

vars == <<pc, exit_status, traceback, startup_error, LIB, _CLIENT_CONFIG,
          _INITIALISED_KEYS, line, written, calls, raised, created, registrations,
          in_progress, trace>>

(***************************************************************************)
(* Bounds.  ctypes.c_int is 32 bits wide and c_longlong 64; the model      *)
(* keeps the wrap-around but on a range TLC's integers can hold.           *)
(***************************************************************************)
CIntHalf == 2
CLongLongHalf == 50

(***************************************************************************)
(* JSON values as json.loads returns them.  A Python str is a sequence of  *)
(* chunks, so that an f-string is a concatenation and a prefix is a Head.  *)
(***************************************************************************)
JNull == [t |-> "null"]
JInt(i) == [t |-> "int", n |-> i]
\* a JSON number with a fraction: i + 1/2, for i >= 0
JFloat(i) == [t |-> "float", n |-> i]
JStr(chunks) == [t |-> "str", s |-> chunks]
JArr == [t |-> "array"]
JObj(dict) == [t |-> "object", d |-> dict]

EmptyDict == <<>>

\* dict.get(key), None when the key is absent
DictGet(dict, key) == IF key \in DOMAIN dict THEN dict[key] ELSE JNull

\* dict.get(key, default)
DictGetDefault(dict, key, default) == IF key \in DOMAIN dict THEN dict[key] ELSE default

\* dict[key] = value
DictSet(dict, key, value) ==
    [k \in (DOMAIN dict) \cup {key} |-> IF k = key THEN value ELSE dict[k]]

\* dict.setdefault(key, value)
SetDefault(dict, key, value) == IF key \in DOMAIN dict THEN dict ELSE DictSet(dict, key, value)

(***************************************************************************)
(* Python expressions that may raise: [raised, exc, v].                    *)
(***************************************************************************)
Ok(v) == [raised |-> FALSE, exc |-> <<>>, v |-> v]
Raised(exc, dummy) == [raised |-> TRUE, exc |-> exc, v |-> dummy]

\* params[name]: KeyError on a missing key, TypeError when params is no mapping
Subscript(params, name) ==
    IF params.t = "object"
    THEN IF name \in DOMAIN params.d
         THEN Ok(params.d[name])
         ELSE Raised(<<"'", name, "'">>, JNull)
    ELSE IF params.t = "null"
    THEN Raised(<<"'NoneType' object is not subscriptable">>, JNull)
    ELSE IF params.t = "int"
    THEN Raised(<<"'int' object is not subscriptable">>, JNull)
    ELSE IF params.t = "float"
    THEN Raised(<<"'float' object is not subscriptable">>, JNull)
    ELSE IF params.t = "str"
    THEN Raised(<<"string indices must be integers, not 'str'">>, JNull)
    ELSE Raised(<<"list indices must be integers or slices, not str">>, JNull)

\* the decimal numerals int() can parse, within the modelled range
NumeralRange == (0 - 2 * CIntHalf - 2) .. (2 * CIntHalf + 2)
IsNumeral(chunks) == \E i \in NumeralRange : chunks = <<ToString(i)>>
NumeralValue(chunks) == CHOOSE i \in NumeralRange : chunks = <<ToString(i)>>

\* int(value): a float is truncated towards zero
PyInt(value) ==
    IF value.t \in {"int", "float"} THEN Ok(value.n)
    ELSE IF value.t = "str"
    THEN IF IsNumeral(value.s)
         THEN Ok(NumeralValue(value.s))
         ELSE Raised(<<"invalid literal for int() with base 10: '">> \o value.s \o <<"'">>, 0)
    ELSE Raised(<<"int() argument must be a string, a bytes-like object or a real number">>, 0)

\* int(params[name])
IntParam(params, name) ==
    LET item == Subscript(params, name)
    IN  IF item.raised THEN Raised(item.exc, 0) ELSE PyInt(item.v)

\* str(value), as an f-string formats it
PyStr(value) ==
    IF value.t = "str" THEN value.s
    ELSE IF value.t = "int" THEN <<ToString(value.n)>>
    ELSE IF value.t = "float" THEN <<ToString(value.n), ".5">>
    ELSE IF value.t = "null" THEN <<"None">>
    ELSE IF value.t = "array" THEN <<"[]">>
    ELSE <<"{}">>

\* value.encode("utf-8"): only a str has the method
Encode(value) ==
    IF value.t = "str" THEN Ok(value.s)
    ELSE Raised(<<"object has no attribute 'encode'">>, <<>>)

\* ctypes.c_int(i): two's complement wrap-around, no overflow check
c_int(i) == ((i + CIntHalf) % (2 * CIntHalf)) - CIntHalf

\* ctypes.c_longlong(i)
c_longlong(i) == ((i + CLongLongHalf) % (2 * CLongLongHalf)) - CLongLongHalf

(***************************************************************************)
(* What the library hands back: a c_char_p (None or bytes) and StrOrErr.   *)
(***************************************************************************)
NULL == [null |-> TRUE, bytes |-> <<>>]
Bytes(chunks) == [null |-> FALSE, bytes |-> chunks]

\* Python truth of a c_char_p result: None and b"" are both false
Truthy(ptr) == ~ptr.null /\ ptr.bytes # <<>>

\* ctypes.string_at(ptr).decode("utf-8", errors="replace")
Decode(ptr) == JStr(ptr.bytes)

StrOrErr(str, err) == [str |-> str, err |-> err]

\* a slip in _unwrap: a null payload reported as a failure
UnwrapNullIsError(result) ==
    IF Truthy(result.err) THEN ("error" :> Decode(result.err))
    ELSE IF Truthy(result.str) THEN ("result" :> Decode(result.str))
    ELSE ("error" :> JStr(<<"empty result">>))

_unwrap(result) ==
    IF Truthy(result.err) THEN ("error" :> Decode(result.err))
    ELSE IF Truthy(result.str) THEN ("result" :> Decode(result.str))
    ELSE ("result" :> JNull)

_maybe_error(ptr) ==
    IF Truthy(ptr) THEN ("error" :> Decode(ptr))
    ELSE ("result" :> JStr(<<"ok">>))

\* one call into LIB: the function, the arguments as the backend receives them,
\* and what it returned
Call(op, args, ret) == [op |-> op, args |-> args, ret |-> ret]

(***************************************************************************)
(* A handler run: the registry it leaves, the backend calls it made, and   *)
(* either the dict it returned or the exception it raised.                 *)
(***************************************************************************)
Return(cfg, init, made, ret) ==
    [cfg |-> cfg, init |-> init, calls |-> made, raised |-> FALSE, exc |-> <<>>, ret |-> ret]
Raise(cfg, init, made, exc) ==
    [cfg |-> cfg, init |-> init, calls |-> made, raised |-> TRUE, exc |-> exc, ret |-> EmptyDict]

\* a slip in lines 133-136: the key marked whatever LIB.CreateClient reported
AfterCreateMarksOnError(api_key_index, cfg, init, made, outcome) ==
    Return(cfg, init \cup {api_key_index}, made, outcome)

\* lines 132-137: the outcome of LIB.CreateClient decides whether the key is marked
AfterCreate(api_key_index, cfg, init, made, outcome) ==
    IF "error" \in DOMAIN outcome
    THEN Return(cfg, init, made, outcome)
    ELSE Return(cfg, init \cup {api_key_index}, made, ("result" :> JStr(<<"ok">>)))

\* lines 125-131: the arguments are encoded, then LIB.CreateClient is called
CreateClientCall(api_key_index, config, baseUrl, privateKey, cfg, init, lib) ==
    IF baseUrl.raised THEN Raise(cfg, init, <<>>, baseUrl.exc)
    ELSE IF privateKey.raised THEN Raise(cfg, init, <<>>, privateKey.exc)
    ELSE AfterCreate(api_key_index, cfg, init,
             <<Call("CreateClient",
                    <<baseUrl.v, privateKey.v, c_int(config["chainId"].n),
                      c_int(api_key_index), c_longlong(config["accountIndex"].n)>>,
                    lib.create)>>,
             _maybe_error(lib.create))

\* a slip in lines 119-120: a key without config passes as registered
RegisterStepNoConfigCheck(api_key_index, cfg, init, lib) ==
    IF api_key_index \notin DOMAIN cfg \/ api_key_index \in init
    THEN Return(cfg, init \cup {api_key_index}, <<>>, ("result" :> JStr(<<"ok">>)))
    ELSE CreateClientCall(api_key_index, cfg[api_key_index],
             Encode(cfg[api_key_index]["baseUrl"]), Encode(cfg[api_key_index]["privateKey"]),
             cfg, init, lib)

\* a slip in lines 122-123: the initialised short-circuit left out
RegisterStepAlwaysCreate(api_key_index, cfg, init, lib) ==
    IF api_key_index \notin DOMAIN cfg
    THEN Return(cfg, init, <<>>, ("error" :> JStr(<<"client_not_initialized">>)))
    ELSE CreateClientCall(api_key_index, cfg[api_key_index],
             Encode(cfg[api_key_index]["baseUrl"]), Encode(cfg[api_key_index]["privateKey"]),
             cfg, init, lib)

\* lines 119-137: no config, or already initialised, or register with the backend
RegisterStep(api_key_index, cfg, init, lib) ==
    IF api_key_index \notin DOMAIN cfg
    THEN Return(cfg, init, <<>>, ("error" :> JStr(<<"client_not_initialized">>)))
    ELSE IF api_key_index \in init
    THEN Return(cfg, init, <<>>, ("result" :> JStr(<<"ok">>)))
    ELSE CreateClientCall(api_key_index, cfg[api_key_index],
             Encode(cfg[api_key_index]["baseUrl"]), Encode(cfg[api_key_index]["privateKey"]),
             cfg, init, lib)

\* lines 111-116: the dict literal, its two int() evaluated in order
BuildConfig(params, chainId, accountIndex) ==
    IF chainId.raised THEN Raised(chainId.exc, EmptyDict)
    ELSE IF accountIndex.raised THEN Raised(accountIndex.exc, EmptyDict)
    ELSE Ok([baseUrl |-> params.d["baseUrl"],
             privateKey |-> params.d["privateKey"],
             chainId |-> JInt(chainId.v),
             accountIndex |-> JInt(accountIndex.v)])

InlineConfig(params) ==
    BuildConfig(params, IntParam(params, "chainId"), IntParam(params, "accountIndex"))

\* line 110
HasInline(params) ==
    params.t = "object" /\ "baseUrl" \in DOMAIN params.d /\ "privateKey" \in DOMAIN params.d

\* a slip in line 117: a configuration already stored is kept
StoreInlineKeepsFirst(api_key_index, config, cfg, init, lib) ==
    IF config.raised
    THEN Raise(cfg, init, <<>>, config.exc)
    ELSE RegisterStep(api_key_index,
             IF api_key_index \in DOMAIN cfg THEN cfg
             ELSE DictSet(cfg, api_key_index, config.v), init, lib)

\* a change of lines 117-123: a replaced configuration is registered again
StoreInlineReregisters(api_key_index, config, cfg, init, lib) ==
    IF config.raised
    THEN Raise(cfg, init, <<>>, config.exc)
    ELSE RegisterStep(api_key_index, DictSet(cfg, api_key_index, config.v),
                      init \ {api_key_index}, lib)

\* a slip in lines 111-117: the dict stored first, its fields filled in after
StoreInlineBeforeFields(api_key_index, config, cfg, init, lib) ==
    IF config.raised
    THEN Raise(DictSet(cfg, api_key_index, EmptyDict), init, <<>>, config.exc)
    ELSE RegisterStep(api_key_index, DictSet(cfg, api_key_index, config.v), init, lib)

\* line 117: _CLIENT_CONFIG[api_key_index] = config, unless building config raised
StoreInline(api_key_index, config, cfg, init, lib) ==
    IF config.raised
    THEN Raise(cfg, init, <<>>, config.exc)
    ELSE RegisterStep(api_key_index, DictSet(cfg, api_key_index, config.v), init, lib)

\* lines 107-137, key being int(params["apiKeyIndex"])
EnsureWithKey(key, params, cfg, init, lib) ==
    IF key.raised THEN Raise(cfg, init, <<>>, key.exc)
    ELSE IF HasInline(params)
    THEN StoreInline(key.v, InlineConfig(params), cfg, init, lib)
    ELSE RegisterStep(key.v, cfg, init, lib)

_ensure_client(params, cfg, init, lib) ==
    EnsureWithKey(IntParam(params, "apiKeyIndex"), params, cfg, init, lib)

_switch_api_key(api_key_index, lib) ==
    [calls |-> <<Call("SwitchAPIKey", <<c_int(api_key_index)>>, lib.switch)>>,
     ret |-> _maybe_error(lib.switch)]

\* a slip in line 146: the key switched to once the client is ensured
CreateClientThenSwitch(params, cfg, init, lib) ==
    LET ensure == _ensure_client(params, cfg, init, lib)
        switched == _switch_api_key(IntParam(params, "apiKeyIndex").v, lib)
    IN  IF ensure.raised \/ "error" \in DOMAIN ensure.ret
        THEN ensure
        ELSE Return(ensure.cfg, ensure.init, ensure.calls \o switched.calls, switched.ret)

handle_create_client(params, cfg, init, lib) == _ensure_client(params, cfg, init, lib)

(***************************************************************************)
(* The operation-specific arguments: int(params[name]) in the order the    *)
(* handler evaluates them, each then narrowed to its C type.               *)
(***************************************************************************)
Least(set) == IF set = {} THEN 0 ELSE CHOOSE i \in set : \A j \in set : i <= j

\* the first int(params[name]) that raises, 0 when none does
FirstBad(params, names) ==
    Least({i \in 1..Len(names) : IntParam(params, names[i]).raised})

Narrow(ctype, i) == IF ctype = "c_int" THEN c_int(i) ELSE c_longlong(i)

\* the arguments of the LIB call: <<name, C type>> of each, in call order
Args(params, argSpec) ==
    [i \in 1..Len(argSpec) |-> Narrow(argSpec[i][2], IntParam(params, argSpec[i][1]).v)]

\* the argument evaluation and the LIB sign/auth call, then _unwrap
SignCall(ensure, made, bad, params, lib, op, evalOrder, argSpec) ==
    IF bad # 0
    THEN Raise(ensure.cfg, ensure.init, made, IntParam(params, evalOrder[bad]).exc)
    ELSE Return(ensure.cfg, ensure.init, made \o <<Call(op, Args(params, argSpec), lib.sign)>>,
                _unwrap(lib.sign))

\* a slip in lines 156-157: the outcome of the switch not looked at
AfterSwitchIgnoresError(ensure, switched, params, lib, op, evalOrder, argSpec) ==
    SignCall(ensure, ensure.calls \o switched.calls, FirstBad(params, evalOrder),
             params, lib, op, evalOrder, argSpec)

\* a change of lines 156-157: a key the backend cannot switch to is un-marked
AfterSwitchForgetsKey(ensure, switched, params, lib, op, evalOrder, argSpec) ==
    IF "error" \in DOMAIN switched.ret
    THEN Return(ensure.cfg, ensure.init \ {IntParam(params, "apiKeyIndex").v},
                ensure.calls \o switched.calls, switched.ret)
    ELSE SignCall(ensure, ensure.calls \o switched.calls, FirstBad(params, evalOrder),
                  params, lib, op, evalOrder, argSpec)

\* if "error" in switched: return switched
AfterSwitch(ensure, switched, params, lib, op, evalOrder, argSpec) ==
    IF "error" \in DOMAIN switched.ret
    THEN Return(ensure.cfg, ensure.init, ensure.calls \o switched.calls, switched.ret)
    ELSE SignCall(ensure, ensure.calls \o switched.calls, FirstBad(params, evalOrder),
                  params, lib, op, evalOrder, argSpec)

\* if "error" in ensure: return ensure
AfterEnsure(ensure, params, lib, op, evalOrder, argSpec) ==
    IF ensure.raised \/ "error" \in DOMAIN ensure.ret
    THEN ensure
    ELSE AfterSwitch(ensure, _switch_api_key(IntParam(params, "apiKeyIndex").v, lib),
                     params, lib, op, evalOrder, argSpec)

\* the body shared by the four signing/auth handlers: evalOrder is the order
\* of the int(params[...]) evaluations, argSpec the arguments in call order
SwitchThenSign(params, cfg, init, lib, op, evalOrder, argSpec) ==
    AfterEnsure(_ensure_client(params, cfg, init, lib), params, lib, op, evalOrder, argSpec)

handle_sign_create_order(params, cfg, init, lib) ==
    SwitchThenSign(params, cfg, init, lib, "SignCreateOrder",
        <<"orderExpiry", "marketIndex", "clientOrderIndex", "baseAmount", "price", "isAsk",
          "orderType", "timeInForce", "reduceOnly", "triggerPrice", "nonce">>,
        <<<<"marketIndex", "c_int">>, <<"clientOrderIndex", "c_longlong">>,
          <<"baseAmount", "c_longlong">>, <<"price", "c_int">>, <<"isAsk", "c_int">>,
          <<"orderType", "c_int">>, <<"timeInForce", "c_int">>, <<"reduceOnly", "c_int">>,
          <<"triggerPrice", "c_int">>, <<"orderExpiry", "c_longlong">>,
          <<"nonce", "c_longlong">>>>)

handle_sign_cancel_order(params, cfg, init, lib) ==
    SwitchThenSign(params, cfg, init, lib, "SignCancelOrder",
        <<"marketIndex", "orderIndex", "nonce">>,
        <<<<"marketIndex", "c_int">>, <<"orderIndex", "c_longlong">>,
          <<"nonce", "c_longlong">>>>)

handle_sign_cancel_all(params, cfg, init, lib) ==
    SwitchThenSign(params, cfg, init, lib, "SignCancelAllOrders",
        <<"timeInForce", "scheduledTime", "nonce">>,
        <<<<"timeInForce", "c_int">>, <<"scheduledTime", "c_longlong">>,
          <<"nonce", "c_longlong">>>>)

handle_create_auth_token(params, cfg, init, lib) ==
    SwitchThenSign(params, cfg, init, lib, "CreateAuthToken",
        <<"deadlineMs">>, <<<<"deadlineMs", "c_longlong">>>>)

\* the keys of the dispatch table
HANDLERS ==
    {"create_client", "sign_create_order", "sign_cancel_order", "sign_cancel_all",
     "create_auth_token"}

\* HANDLERS[method](params)
RunHandler(method, params, cfg, init, lib) ==
    CASE method = "create_client" -> handle_create_client(params, cfg, init, lib)
      [] method = "sign_create_order" -> handle_sign_create_order(params, cfg, init, lib)
      [] method = "sign_cancel_order" -> handle_sign_cancel_order(params, cfg, init, lib)
      [] method = "sign_cancel_all" -> handle_sign_cancel_all(params, cfg, init, lib)
      [] OTHER -> handle_create_auth_token(params, cfg, init, lib)

(***************************************************************************)
(* Module start-up, lines 18-85.  env is what the machine offers: the      *)
(* platform, whether the library file exists, what ctypes.CDLL does on the *)
(* first and on the retried load, and whether the library exports the six  *)
(* functions.                                                              *)
(***************************************************************************)
_resolve_signer_path(env) ==
    IF env.system \notin {"Darwin", "Linux"}
    THEN Raised(<<"Unsupported platform: ", env.system>>, "")
    ELSE IF ~env.exists
    THEN Raised(<<"Signer library missing: ">>, "")
    ELSE IF env.system = "Darwin"
    THEN Ok(IF env.machine = "arm64" THEN "signer-arm64.dylib" ELSE "signer-amd64.dylib")
    ELSE Ok("signer-amd64.so")

_load_library(path, env) ==
    IF env.cdll = "ok" THEN Ok(path)
    ELSE IF env.system = "Darwin" /\ env.cdll = "code signature"
    THEN IF env.retry = "ok" THEN Ok(path) ELSE Raised(<<"OSError on retry">>, "")
    ELSE Raised(<<"OSError: ", env.cdll>>, "")

\* lines 48-85: what the start of the module leaves behind
ModuleStartup(env) ==
    LET path == _resolve_signer_path(env)
        lib == _load_library(path.v, env)
    IN  IF path.raised
        THEN [LIB |-> "unloaded", out |-> <<>>, exit |-> "1", traceback |-> TRUE,
              error |-> "resolve_signer_path"]
        ELSE IF lib.raised
        THEN [LIB |-> "unloaded",
              out |-> <<("id" :> JNull) @@
                        ("error" :> JStr(<<"failed_to_load_signer:">> \o lib.exc))>>,
              exit |-> "1", traceback |-> FALSE, error |-> "load_library"]
        ELSE IF ~env.symbols
        THEN [LIB |-> "loaded", out |-> <<>>, exit |-> "1", traceback |-> TRUE,
              error |-> "missing_symbol"]
        ELSE [LIB |-> "loaded", out |-> <<>>, exit |-> "running", traceback |-> FALSE,
              error |-> ""]

(***************************************************************************)
(* main(), lines 235-261: one iteration of the loop over sys.stdin.        *)
(* An input line is [kind, json]: "blank" (empty once stripped), "text"    *)
(* (json.loads raises JSONDecodeError) or "json" (json.loads returns json).*)
(***************************************************************************)
NoLine == [kind |-> "none", json |-> JNull]

\* what one iteration leaves: registry, backend calls, printed responses,
\* whether the handler raised, and whether an exception escaped main()
Iteration(cfg, init, made, out, exc, crash) ==
    [cfg |-> cfg, init |-> init, calls |-> made, out |-> out, raised |-> exc,
     crash |-> crash]

\* no iteration in progress
NoRun == Iteration(EmptyDict, {}, <<>>, <<>>, FALSE, FALSE)

\* the key HANDLERS.get(method) finds; "" when there is none
HandlerName(method) ==
    IF method.t = "str" /\ Len(method.s) = 1 /\ method.s[1] \in HANDLERS
    THEN method.s[1]
    ELSE ""

\* hash(method) raises TypeError for a list or a dict
Unhashable(value) == value.t \in {"array", "object"}

\* a slip in line 259: the exception response built like the invalid_json one
RespondDropsId(req_id, run) ==
    IF run.raised
    THEN Iteration(run.cfg, run.init, run.calls,
             <<("id" :> JNull) @@ ("error" :> JStr(<<"exception:">> \o run.exc))>>,
             TRUE, FALSE)
    ELSE Iteration(run.cfg, run.init, run.calls, <<SetDefault(run.ret, "id", req_id)>>,
             FALSE, FALSE)

\* a slip in line 258: the except clause missing, the exception escapes main()
RespondReraises(req_id, run) ==
    IF run.raised
    THEN Iteration(run.cfg, run.init, run.calls, <<>>, TRUE, TRUE)
    ELSE Iteration(run.cfg, run.init, run.calls, <<SetDefault(run.ret, "id", req_id)>>,
             FALSE, FALSE)

\* lines 256-259: the response of a handler that returned or raised
Respond(req_id, run) ==
    IF run.raised
    THEN Iteration(run.cfg, run.init, run.calls,
             <<("id" :> req_id) @@ ("error" :> JStr(<<"exception:">> \o run.exc))>>,
             TRUE, FALSE)
    ELSE Iteration(run.cfg, run.init, run.calls, <<SetDefault(run.ret, "id", req_id)>>,
             FALSE, FALSE)

\* lines 254-259: the handler call under try/except Exception
Guarded(req_id, method, params, cfg, init, lib) ==
    Respond(req_id, RunHandler(HandlerName(method), params, cfg, init, lib))

\* lines 246-261, for the value json.loads returned
Dispatch(request, cfg, init, lib) ==
    LET req_id == DictGet(request.d, "id")
        method == DictGet(request.d, "method")
        params == DictGetDefault(request.d, "params", JObj(EmptyDict))
    IN  IF request.t # "object"
        THEN Iteration(cfg, init, <<>>, <<>>, FALSE, TRUE)
        ELSE IF Unhashable(method)
        THEN Iteration(cfg, init, <<>>, <<>>, FALSE, TRUE)
        ELSE IF HandlerName(method) = ""
        THEN Iteration(cfg, init, <<>>,
                 <<("id" :> req_id) @@
                   ("error" :> JStr(<<"unknown_method:">> \o PyStr(method)))>>,
                 FALSE, FALSE)
        ELSE Guarded(req_id, method, params, cfg, init, lib)

\* lines 237-261
main_iteration(l, cfg, init, lib) ==
    IF l.kind = "blank"
    THEN Iteration(cfg, init, <<>>, <<>>, FALSE, FALSE)
    ELSE IF l.kind = "text"
    THEN Iteration(cfg, init, <<>>,
             <<("id" :> JNull) @@
               ("error" :> JStr(<<"invalid_json:", "Expecting value">>))>>, FALSE, FALSE)
    ELSE Dispatch(l.json, cfg, init, lib)

\* which branch of the loop body a line takes
Route(l) ==
    IF l.kind = "blank" THEN "blank"
    ELSE IF l.kind = "text" THEN "invalid_json"
    ELSE IF l.json.t # "object" THEN "not_an_object"
    ELSE IF Unhashable(DictGet(l.json.d, "method")) THEN "unhashable_method"
    ELSE IF HandlerName(DictGet(l.json.d, "method")) = "" THEN "unknown_method"
    ELSE HandlerName(DictGet(l.json.d, "method"))

(***************************************************************************)
(* The inputs: start-up environments, input lines, backend behaviours.     *)
(***************************************************************************)
Environments ==
    [system : {"Darwin", "Linux", "Windows"}, machine : {"arm64", "x86_64"},
     exists : BOOLEAN, cdll : {"ok", "code signature", "cannot open shared object"},
     retry : {"ok", "code signature"}, symbols : BOOLEAN]

\* a key left out of a JSON object
Absent == [t |-> "absent"]
Field(name, value) == IF value.t = "absent" THEN EmptyDict ELSE (name :> value)

\* the api key indices requests name; the last one is outside the c_int range
ApiKeyIndices == {0, 1, 2 * CIntHalf}

UrlX == JStr(<<"https://x">>)
UrlY == JStr(<<"https://y">>)
PrivateKey == JStr(<<"0xabc">>)

\* chainId and accountIndex as a request can carry them
ChainAccount ==
    {<<JInt(1), JInt(5)>>, <<Absent, JInt(5)>>, <<JStr(<<"abc">>), JInt(5)>>,
     <<JInt(1), Absent>>, <<JFloat(1), JInt(5)>>}

BothFields(baseUrl, ca) ==
    ("baseUrl" :> baseUrl) @@ ("privateKey" :> PrivateKey) @@
    Field("chainId", ca[1]) @@ Field("accountIndex", ca[2])

FullConfig == BothFields(UrlX, <<JInt(1), JInt(5)>>)

\* the configuration fields of a request: none, one of the two, or both
ConfigParts ==
    {EmptyDict, ("baseUrl" :> UrlX), ("privateKey" :> PrivateKey),
     BothFields(UrlY, <<JStr(<<"2">>), JInt(5)>>),
     BothFields(JInt(5), <<JInt(1), JInt(5)>>)}
    \cup {BothFields(UrlX, ca) : ca \in ChainAccount}

\* the operation's own fields; nonce and deadlineMs left out or not an integer
OpFields(nonce) ==
    [marketIndex |-> JInt(1), clientOrderIndex |-> JInt(7), baseAmount |-> JInt(10),
     price |-> JInt(1), isAsk |-> JInt(0), orderType |-> JInt(0), timeInForce |-> JInt(1),
     reduceOnly |-> JInt(0), triggerPrice |-> JInt(0), orderExpiry |-> JInt(40),
     orderIndex |-> JInt(7), scheduledTime |-> JInt(0)]
    @@ Field("nonce", nonce) @@ Field("deadlineMs", nonce)

GoodOps == OpFields(JInt(42))
BadOps == {OpFields(Absent), OpFields(JStr(<<"abc">>))}

\* every configuration on index 0, the full one on the other indices
ParamDicts ==
    {("apiKeyIndex" :> JInt(0)) @@ c @@ GoodOps : c \in ConfigParts}
    \cup {("apiKeyIndex" :> JInt(k)) @@ c @@ GoodOps :
              k \in ApiKeyIndices \ {0}, c \in {EmptyDict, FullConfig}}
    \cup {("apiKeyIndex" :> JInt(0)) @@ c @@ o : c \in {EmptyDict, FullConfig}, o \in BadOps}
    \cup {Field("apiKeyIndex", k) @@ c @@ GoodOps :
              k \in {Absent, JNull, JStr(<<"abc">>), JStr(<<"1">>)},
              c \in {EmptyDict, FullConfig}}

Ids == {Absent, JNull, JInt(7), JStr(<<"req-1">>)}

Methods ==
    {JStr(<<m>>) : m \in HANDLERS}
    \cup {Absent, JNull, JStr(<<"bogus">>), JInt(3), JArr, JObj(EmptyDict)}

Request(id, method, params) ==
    JObj(Field("id", id) @@ Field("method", method) @@ Field("params", params))

Requests ==
    {Request(id, m, JObj(("apiKeyIndex" :> JInt(0)) @@ GoodOps)) : id \in Ids, m \in Methods}
    \cup {Request(id, JStr(<<m>>), p) :
            id \in {Absent, JInt(7)}, m \in HANDLERS, p \in {Absent, JNull, JArr}}
    \cup {Request(JInt(7), JStr(<<m>>), JObj(p)) : m \in HANDLERS, p \in ParamDicts}

Lines ==
    {[kind |-> "blank", json |-> JNull], [kind |-> "text", json |-> JNull]}
    \cup {[kind |-> "json", json |-> v] : v \in {JNull, JInt(42), JStr(<<"x">>), JArr}}
    \cup {[kind |-> "json", json |-> r] : r \in Requests}

Signed == Bytes(<<"0xsigned">>)
Behaviour(create, switch, sign) == [create |-> create, switch |-> switch, sign |-> sign]

\* what the library returns to the calls of one request
Behaviours ==
    {Behaviour(NULL, NULL, StrOrErr(Signed, NULL)),
     Behaviour(NULL, NULL, StrOrErr(NULL, NULL)),
     Behaviour(NULL, NULL, StrOrErr(Bytes(<<>>), Bytes(<<>>))),
     Behaviour(NULL, NULL, StrOrErr(NULL, Bytes(<<"sign failed">>))),
     Behaviour(NULL, NULL, StrOrErr(Signed, Bytes(<<"sign failed">>))),
     Behaviour(NULL, Bytes(<<"switch failed">>), StrOrErr(Signed, NULL)),
     Behaviour(Bytes(<<"create failed">>), NULL, StrOrErr(Signed, NULL)),
     Behaviour(Bytes(<<>>), Bytes(<<>>), StrOrErr(Signed, NULL))}

(***************************************************************************)
(* The state machine.                                                      *)
(***************************************************************************)
Init ==
    /\ pc = "startup"
    /\ exit_status = "running"
    /\ traceback = FALSE
    /\ startup_error = ""
    /\ LIB = "unloaded"
    /\ _CLIENT_CONFIG = EmptyDict
    /\ _INITIALISED_KEYS = {}
    /\ line = NoLine
    /\ written = <<>>
    /\ calls = <<>>
    /\ raised = FALSE
    /\ created = EmptyDict
    /\ registrations = EmptyDict
    /\ in_progress = NoRun
    /\ trace = <<>>

Startup ==
    /\ pc = "startup"
    /\ \E env \in Environments :
         LET up == ModuleStartup(env)
         IN  /\ LIB' = up.LIB
             /\ written' = up.out
             /\ exit_status' = up.exit
             /\ traceback' = up.traceback
             /\ startup_error' = up.error
             /\ pc' = IF up.exit = "running" THEN "read" ELSE "exited"
    /\ UNCHANGED <<_CLIENT_CONFIG, _INITIALISED_KEYS, line, calls, raised, created,
                   registrations, in_progress, trace>>

\* the api_key_index a request names; only read when a CreateClient call was made
RequestKey(l) ==
    IntParam(DictGetDefault(l.json.d, "params", JObj(EmptyDict)), "apiKeyIndex").v

Bump(history, key) ==
    DictSet(history, key, IF key \in DOMAIN history THEN history[key] + 1 ELSE 1)

\* the history of successful LIB.CreateClient calls, per api_key_index
Registered(history, l, made) ==
    IF \E i \in 1..Len(made) : made[i].op = "CreateClient" /\ ~Truthy(made[i].ret)
    THEN Bump(history, RequestKey(l))
    ELSE history

\* what the backend was registered with, per api_key_index: the config the
\* successful LIB.CreateClient call read and the arguments the backend received
Registration(history, l, cfg, made) ==
    IF made # <<>> /\ made[1].op = "CreateClient" /\ ~Truthy(made[1].ret)
    THEN DictSet(history, RequestKey(l),
                 [config |-> cfg[RequestKey(l)], args |-> made[1].args])
    ELSE history

\* one iteration of the loop in main() on line l, the library behaving as lib
Iterate(l, lib) ==
    \E it \in {main_iteration(l, _CLIENT_CONFIG, _INITIALISED_KEYS, lib)} :
        /\ line' = l
        /\ _CLIENT_CONFIG' = it.cfg
        /\ _INITIALISED_KEYS' = it.init
        /\ calls' = it.calls
        /\ written' = it.out
        /\ created' = Registered(created, l, it.calls)
        /\ registrations' = Registration(registrations, l, it.cfg, it.calls)
        /\ raised' = it.raised
        /\ pc' = IF it.crash THEN "exited" ELSE "wrote"
        /\ exit_status' = IF it.crash THEN "1" ELSE exit_status
        /\ traceback' = it.crash
        /\ UNCHANGED <<LIB, startup_error, in_progress, trace>>

Quiet == Behaviour(NULL, NULL, StrOrErr(NULL, NULL))

SkipBlank ==
    pc = "read" /\ \E l \in Lines : Route(l) = "blank" /\ Iterate(l, Quiet)

InvalidJson ==
    pc = "read" /\ \E l \in Lines : Route(l) = "invalid_json" /\ Iterate(l, Quiet)

NotAnObject ==
    pc = "read" /\ \E l \in Lines : Route(l) = "not_an_object" /\ Iterate(l, Quiet)

UnhashableMethod ==
    pc = "read" /\ \E l \in Lines : Route(l) = "unhashable_method" /\ Iterate(l, Quiet)

UnknownMethod ==
    pc = "read" /\ \E l \in Lines : Route(l) = "unknown_method" /\ Iterate(l, Quiet)

CreateClient ==
    pc = "read" /\ \E l \in Lines, lib \in Behaviours :
        Route(l) = "create_client" /\ Iterate(l, lib)

SignCreateOrder ==
    pc = "read" /\ \E l \in Lines, lib \in Behaviours :
        Route(l) = "sign_create_order" /\ Iterate(l, lib)

SignCancelOrder ==
    pc = "read" /\ \E l \in Lines, lib \in Behaviours :
        Route(l) = "sign_cancel_order" /\ Iterate(l, lib)

SignCancelAll ==
    pc = "read" /\ \E l \in Lines, lib \in Behaviours :
        Route(l) = "sign_cancel_all" /\ Iterate(l, lib)

CreateAuthToken ==
    pc = "read" /\ \E l \in Lines, lib \in Behaviours :
        Route(l) = "create_auth_token" /\ Iterate(l, lib)

\* the loop goes back to read the next line
NextLine ==
    /\ pc = "wrote"
    /\ pc' = "read"
    /\ line' = NoLine
    /\ written' = <<>>
    /\ calls' = <<>>
    /\ raised' = FALSE
    /\ UNCHANGED <<exit_status, traceback, startup_error, LIB, _CLIENT_CONFIG,
                   _INITIALISED_KEYS, created, registrations, in_progress, trace>>

\* sys.stdin is exhausted: main() returns
EndOfInput ==
    /\ pc = "read"
    /\ pc' = "exited"
    /\ exit_status' = "0"
    /\ UNCHANGED <<traceback, startup_error, LIB, _CLIENT_CONFIG, _INITIALISED_KEYS,
                   line, written, calls, raised, created, registrations, in_progress, trace>>

Next ==
    \/ Startup
    \/ SkipBlank
    \/ InvalidJson
    \/ NotAnObject
    \/ UnhashableMethod
    \/ UnknownMethod
    \/ CreateClient
    \/ SignCreateOrder
    \/ SignCancelOrder
    \/ SignCancelAll
    \/ CreateAuthToken
    \/ NextLine
    \/ EndOfInput

Spec == Init /\ [][Next]_vars

(***************************************************************************)
(* main() statement by statement.  The loop above takes one iteration as   *)
(* one step; here the iteration is spread over the statements that can be  *)
(* observed from outside: the line read (236), the configuration stored    *)
(* (117), each LIB call (125, 141, 160/186/204/222), the key marked (136)  *)
(* and the response printed (261).  There is one thread and every call     *)
(* blocks, so the position in the loop body is all the control state.      *)
(***************************************************************************)
MaxLines == 2

Event(n, kind) == [req |-> n, kind |-> kind]

\* the number of lines taken from sys.stdin so far
LinesRead == Cardinality({i \in DOMAIN trace : trace[i].kind = "read"})

Log(kind) == trace' = Append(trace, Event(LinesRead, kind))

\* the lines fed to the statement-by-statement loop
StepParams ==
    {("apiKeyIndex" :> JInt(k)) @@ c @@ GoodOps : k \in {0, 1}, c \in {EmptyDict, FullConfig}}
    \cup {("apiKeyIndex" :> JInt(0)) @@ FullConfig @@ OpFields(Absent),
          ("apiKeyIndex" :> JInt(0)) @@ BothFields(JInt(5), <<JInt(1), JInt(5)>>) @@ GoodOps}

StepLines ==
    {[kind |-> "blank", json |-> JNull], [kind |-> "text", json |-> JNull],
     [kind |-> "json", json |-> JArr],
     [kind |-> "json", json |-> Request(JInt(7), JStr(<<"bogus">>), JObj(EmptyDict))]}
    \cup {[kind |-> "json", json |-> Request(JInt(7), JStr(<<m>>), JObj(p))] :
             m \in {"create_client", "sign_cancel_order"}, p \in StepParams}

StepInit ==
    /\ pc = "read"
    /\ exit_status = "running"
    /\ traceback = FALSE
    /\ startup_error = ""
    /\ LIB = "loaded"
    /\ _CLIENT_CONFIG = EmptyDict
    /\ _INITIALISED_KEYS = {}
    /\ line = NoLine
    /\ written = <<>>
    /\ calls = <<>>
    /\ raised = FALSE
    /\ created = EmptyDict
    /\ registrations = EmptyDict
    /\ in_progress = NoRun
    /\ trace = <<>>

\* a slip in line 236: the next line taken while the body is still running,
\* as a loop that hands each request to a worker would
CanReadEarly == pc \in {"read", "handle"}

\* line 236: the for loop takes the next line once the body has ended
CanRead == pc = "read"

\* lines 236-252: a line is read, parsed and routed
StepRead ==
    /\ CanRead
    /\ LinesRead < MaxLines
    /\ \E l \in StepLines, lib \in Behaviours :
         \E it \in {main_iteration(l, _CLIENT_CONFIG, _INITIALISED_KEYS, lib)} :
             /\ line' = l
             /\ in_progress' = it
    /\ calls' = <<>>
    /\ written' = <<>>
    /\ raised' = FALSE
    /\ pc' = "handle"
    /\ trace' = Append(trace, Event(LinesRead + 1, "read"))
    /\ UNCHANGED <<exit_status, traceback, startup_error, LIB, _CLIENT_CONFIG,
                   _INITIALISED_KEYS, created, registrations>>

\* lines 238-239: continue
StepSkip ==
    /\ pc = "handle"
    /\ line.kind = "blank"
    /\ pc' = "read"
    /\ Log("skip")
    /\ UNCHANGED <<exit_status, traceback, startup_error, LIB, _CLIENT_CONFIG,
                   _INITIALISED_KEYS, line, written, calls, raised, created,
                   registrations, in_progress>>

\* line 117: _CLIENT_CONFIG[api_key_index] = config
StepStore ==
    /\ pc = "handle"
    /\ in_progress.cfg # _CLIENT_CONFIG
    /\ _CLIENT_CONFIG' = in_progress.cfg
    /\ Log("store")
    /\ UNCHANGED <<pc, exit_status, traceback, startup_error, LIB, _INITIALISED_KEYS,
                   line, written, calls, raised, created, registrations, in_progress>>

\* line 136 is due: LIB.CreateClient has returned success, the key is not yet marked
MarkDue == calls # <<>> /\ in_progress.init # _INITIALISED_KEYS

\* lines 125, 141, 160, 186, 204, 222: the next LIB call is made and returns
StepCall ==
    /\ pc = "handle"
    /\ in_progress.cfg = _CLIENT_CONFIG
    /\ ~MarkDue
    /\ Len(calls) < Len(in_progress.calls)
    /\ calls' = Append(calls, in_progress.calls[Len(calls) + 1])
    /\ Log("call")
    /\ UNCHANGED <<pc, exit_status, traceback, startup_error, LIB, _CLIENT_CONFIG,
                   _INITIALISED_KEYS, line, written, raised, created, registrations, in_progress>>

\* line 136: _INITIALISED_KEYS.add(api_key_index)
StepMark ==
    /\ pc = "handle"
    /\ MarkDue
    /\ _INITIALISED_KEYS' = in_progress.init
    /\ Log("mark")
    /\ UNCHANGED <<pc, exit_status, traceback, startup_error, LIB, _CLIENT_CONFIG,
                   line, written, calls, raised, created, registrations, in_progress>>

\* the body has nothing left to do but answer
BodyDone ==
    /\ in_progress.cfg = _CLIENT_CONFIG
    /\ in_progress.init = _INITIALISED_KEYS
    /\ Len(calls) = Len(in_progress.calls)

\* lines 243, 261: print(json.dumps(response), flush=True)
StepPrint ==
    /\ pc = "handle"
    /\ line.kind # "blank"
    /\ BodyDone
    /\ ~in_progress.crash
    /\ written' = in_progress.out
    /\ raised' = in_progress.raised
    /\ pc' = "read"
    /\ Log("write")
    /\ UNCHANGED <<exit_status, traceback, startup_error, LIB, _CLIENT_CONFIG,
                   _INITIALISED_KEYS, line, calls, created, registrations, in_progress>>

\* lines 246, 250: an exception outside the try ends the process
StepCrash ==
    /\ pc = "handle"
    /\ in_progress.crash
    /\ pc' = "exited"
    /\ exit_status' = "1"
    /\ traceback' = TRUE
    /\ Log("crash")
    /\ UNCHANGED <<startup_error, LIB, _CLIENT_CONFIG, _INITIALISED_KEYS, line, written,
                   calls, raised, created, registrations, in_progress>>

\* sys.stdin is exhausted: main() returns
StepEnd ==
    /\ pc = "read"
    /\ pc' = "exited"
    /\ exit_status' = "0"
    /\ UNCHANGED <<traceback, startup_error, LIB, _CLIENT_CONFIG, _INITIALISED_KEYS,
                   line, written, calls, raised, created, registrations, in_progress, trace>>

StepNext ==
    \/ StepRead
    \/ StepSkip
    \/ StepStore
    \/ StepCall
    \/ StepMark
    \/ StepPrint
    \/ StepCrash
    \/ StepEnd

StepSpec == StepInit /\ [][StepNext]_vars

(***************************************************************************)
(* Reading a state: the request of the current iteration and its response. *)
(***************************************************************************)
IsRequest(l) == l.kind = "json" /\ l.json.t = "object"
ReqId(l) == DictGet(l.json.d, "id")
ReqMethod(l) == DictGet(l.json.d, "method")
ReqParams(l) == DictGetDefault(l.json.d, "params", JObj(EmptyDict))

\* the request names one of the five methods
Handled(l) == IsRequest(l) /\ ReqMethod(l) \in {JStr(<<m>>) : m \in HANDLERS}
SignMethods == HANDLERS \ {"create_client"}
Signing(l) == IsRequest(l) /\ ReqMethod(l) \in {JStr(<<m>>) : m \in SignMethods}

\* the request carries an apiKeyIndex that int() accepts
HasKey(l) == ~IntParam(ReqParams(l), "apiKeyIndex").raised

SignOps == {"SignCreateOrder", "SignCancelOrder", "SignCancelAllOrders", "CreateAuthToken"}
SignOp(method) ==
    CASE method = JStr(<<"sign_create_order">>) -> "SignCreateOrder"
      [] method = JStr(<<"sign_cancel_order">>) -> "SignCancelOrder"
      [] method = JStr(<<"sign_cancel_all">>) -> "SignCancelAllOrders"
      [] OTHER -> "CreateAuthToken"

NoCreate(made) == \A i \in 1..Len(made) : made[i].op # "CreateClient"
IsErrorWith(resp, prefix) ==
    "error" \in DOMAIN resp /\ resp["error"].s # <<>> /\ Head(resp["error"].s) = prefix
ErrorResponse(id, text) == ("id" :> id) @@ ("error" :> JStr(<<text>>))

(***************************************************************************)
(* C1.  A signing/auth request that ends in a result response made exactly *)
(* these backend calls: CreateClient zero or one time, then SwitchAPIKey   *)
(* once for the request's apiKeyIndex, then its own sign/auth call once.   *)
(* The order and the counts hold; the index does not: an apiKeyIndex       *)
(* outside the C int range reaches the backend wrapped around.             *)
(***************************************************************************)
SwitchBeforeSign ==
    (pc = "wrote" /\ Signing(line) /\ Len(written) = 1 /\ "result" \in DOMAIN written[1])
    => /\ Len(calls) \in {2, 3}
       /\ Len(calls) = 3 => calls[1].op = "CreateClient"
       /\ calls[Len(calls) - 1].op = "SwitchAPIKey"
       /\ calls[Len(calls) - 1].args = <<RequestKey(line)>>
       /\ calls[Len(calls)].op = SignOp(ReqMethod(line))

(***************************************************************************)
(* C2.  A request of one of the five methods for an apiKeyIndex that has   *)
(* no stored configuration, and that does not carry both baseUrl and       *)
(* privateKey, is answered client_not_initialized, makes no backend call   *)
(* and leaves the stored configurations and the initialised set unchanged. *)
(***************************************************************************)
MissingConfiguration ==
    [][(/\ pc = "read"
        /\ Handled(line')
        /\ HasKey(line')
        /\ RequestKey(line') \notin DOMAIN _CLIENT_CONFIG
        /\ ~HasInline(ReqParams(line')))
       => (/\ written' = <<ErrorResponse(ReqId(line'), "client_not_initialized")>>
           /\ calls' = <<>>
           /\ _CLIENT_CONFIG' = _CLIENT_CONFIG
           /\ _INITIALISED_KEYS' = _INITIALISED_KEYS)]_vars

MissingConfigurationWitness ==
    /\ pc = "wrote"
    /\ IsRequest(line)
    /\ ReqMethod(line) = JStr(<<"sign_cancel_order">>)
    /\ HasKey(line) /\ RequestKey(line) = 1
    /\ 0 \in DOMAIN _CLIENT_CONFIG /\ 1 \notin DOMAIN _CLIENT_CONFIG
    /\ written = <<ErrorResponse(JInt(7), "client_not_initialized")>>
    /\ calls = <<>>

MalformedLineAnswered ==
    (line.kind = "text" \/ (line.kind = "json" /\ line.json.t # "object"))
    => /\ pc = "wrote"
       /\ exit_status = "running"
       /\ Len(written) = 1
       /\ written[1]["id"] = JNull
       /\ IsErrorWith(written[1], "invalid_json:")

(***************************************************************************)
(* C5.  A request whose method is none of the five names, whatever the     *)
(* value of the field, gets unknown_method:<name> with the request's id,   *)
(* no backend call and an unchanged registry.  The code does so for a      *)
(* hashable method; on a list or an object HANDLERS.get raises TypeError   *)
(* outside the try and the process dies without a response.                *)
(***************************************************************************)
UnknownMethodRejected ==
    [][(pc = "read" /\ IsRequest(line') /\ ~Handled(line'))
       => (/\ pc' = "wrote"
           /\ Len(written') = 1
           /\ written'[1]["id"] = ReqId(line')
           /\ IsErrorWith(written'[1], "unknown_method:")
           /\ calls' = <<>>
           /\ _CLIENT_CONFIG' = _CLIENT_CONFIG
           /\ _INITIALISED_KEYS' = _INITIALISED_KEYS)]_vars

(***************************************************************************)
(* C6.  The response to a request that parsed as a JSON object carries the *)
(* request's id, null when the request has none, whatever the outcome.     *)
(***************************************************************************)
IdEcho ==
    (pc = "wrote" /\ IsRequest(line))
    => Len(written) = 1 /\ written[1]["id"] = ReqId(line)

IdEchoWitness ==
    /\ pc = "wrote"
    /\ IsRequest(line)
    /\ ReqId(line) = JStr(<<"req-1">>)
    /\ raised
    /\ written[1]["id"] = JStr(<<"req-1">>)

(***************************************************************************)
(* C7.  Once the backend has loaded, every line gets its due up to end of  *)
(* input: one response for a non-blank line, none for a blank one, and no  *)
(* line stops the loop.  The lines of C4 and C5 that kill the process      *)
(* break it.                                                               *)
(***************************************************************************)
OneResponsePerLine ==
    (LIB = "loaded" /\ startup_error = "")
    => /\ exit_status # "1"
       /\ line.kind = "blank" => written = <<>>
       /\ line.kind \in {"text", "json"} => Len(written) = 1

(***************************************************************************)
(* C8.  A failure raised while a handler runs (params that is no mapping,  *)
(* a missing or non-integer apiKeyIndex or nonce, ...) is caught for that  *)
(* request: the response is an exception: error with the request's id, and *)
(* the loop goes on to the next line.                                      *)
(***************************************************************************)
HandlerFailureCaught ==
    /\ (pc = "wrote" /\ Handled(line) /\ (ReqParams(line).t # "object" \/ ~HasKey(line)))
       => raised
    /\ raised
       => /\ pc = "wrote"
          /\ exit_status = "running"
          /\ ~traceback
          /\ Len(written) = 1
          /\ DOMAIN written[1] = {"id", "error"}
          /\ written[1]["id"] = ReqId(line)
          /\ IsErrorWith(written[1], "exception:")

\* the nonce is missing: CreateClient and SwitchAPIKey were called, then int() raised
HandlerFailureCaughtWitness ==
    /\ raised
    /\ Signing(line)
    /\ HasKey(line)
    /\ "nonce" \notin DOMAIN ReqParams(line).d
    /\ Len(calls) = 2
    /\ IsErrorWith(written[1], "exception:")

(***************************************************************************)
(* C9.  Every response holds exactly one of result and error; a sign/auth  *)
(* call that returns neither a payload nor an error gives result null.     *)
(***************************************************************************)
ResultXorError ==
    /\ \A i \in 1..Len(written) :
          ("result" \in DOMAIN written[i]) # ("error" \in DOMAIN written[i])
    /\ (/\ pc = "wrote"
        /\ calls # <<>>
        /\ calls[Len(calls)].op \in SignOps
        /\ ~Truthy(calls[Len(calls)].ret.err)
        /\ ~Truthy(calls[Len(calls)].ret.str))
       => written = <<("id" :> ReqId(line)) @@ ("result" :> JNull)>>

ResultXorErrorWitness ==
    /\ pc = "wrote"
    /\ calls # <<>>
    /\ calls[Len(calls)].op = "SignCreateOrder"
    /\ calls[Len(calls)].ret = StrOrErr(NULL, NULL)
    /\ written = <<("id" :> JInt(7)) @@ ("result" :> JNull)>>

(***************************************************************************)
(* C10.  When the backend cannot be loaded or initialised at start-up,     *)
(* whatever the cause, the process prints one response with id null and an *)
(* error, exits non-zero and reads no line.  The code does so for an       *)
(* OSError of the load; a missing library file, an unsupported platform or *)
(* a missing symbol raises outside the try: no response is printed.        *)
(***************************************************************************)
StartupFailureReported ==
    startup_error # ""
    => /\ pc = "exited"
       /\ exit_status = "1"
       /\ line = NoLine
       /\ Len(written) = 1
       /\ written[1]["id"] = JNull
       /\ "error" \in DOMAIN written[1]

(***************************************************************************)
(* C11.  Every apiKeyIndex in the initialised set is one for which a       *)
(* LIB.CreateClient call with that exact index has returned success        *)
(* earlier in the run.  The code marks int(params["apiKeyIndex"]) but      *)
(* hands the backend ctypes.c_int of it: for an index outside the C int    *)
(* range the backend registered another index than the one marked.         *)
(***************************************************************************)
InitialisedWereRegistered ==
    \A k \in _INITIALISED_KEYS :
        \E j \in DOMAIN registrations : registrations[j].args[4] = k

(***************************************************************************)
(* C12.  When LIB.CreateClient reports an error for an apiKeyIndex, the    *)
(* response is that error string and the index is not added to the         *)
(* initialised set; and the next request for an index left with a stored   *)
(* configuration but not initialised calls LIB.CreateClient again with the *)
(* then stored configuration.                                              *)
(***************************************************************************)
\* the arguments LIB.CreateClient gets from a stored configuration
CreateArgs(api_key_index, config) ==
    <<config["baseUrl"].s, config["privateKey"].s, c_int(config["chainId"].n),
      c_int(api_key_index), c_longlong(config["accountIndex"].n)>>

\* the request is for an index that has a stored configuration and is not initialised
Retrying(l) ==
    /\ Handled(l)
    /\ HasKey(l)
    /\ RequestKey(l) \in DOMAIN _CLIENT_CONFIG
    /\ RequestKey(l) \notin _INITIALISED_KEYS

CreateClientAgain ==
    /\ calls' # <<>>
    /\ calls'[1].op = "CreateClient"
    /\ calls'[1].args = CreateArgs(RequestKey(line'), _CLIENT_CONFIG'[RequestKey(line')])

CreateErrorReturned ==
    (calls' # <<>> /\ calls'[1].op = "CreateClient" /\ Truthy(calls'[1].ret))
    => /\ written' = <<("id" :> ReqId(line')) @@ ("error" :> Decode(calls'[1].ret))>>
       /\ Len(calls') = 1
       /\ _INITIALISED_KEYS' = _INITIALISED_KEYS

UsableConfig ==
    /\ HasInline(ReqParams(line')) => ~InlineConfig(ReqParams(line')).raised
    /\ _CLIENT_CONFIG'[RequestKey(line')]["baseUrl"].t = "str"
    /\ _CLIENT_CONFIG'[RequestKey(line')]["privateKey"].t = "str"

CallsOf(ops) == {i \in 1..Len(calls) : calls[i].op \in ops}

\* after a signing/auth request: _ensure_client raised on the request's fields,
\* or it did not leave the request's index in the initialised set
EnsureFailed ==
    \/ ~HasKey(line)
    \/ HasInline(ReqParams(line)) /\ InlineConfig(ReqParams(line)).raised
    \/ RequestKey(line) \notin _INITIALISED_KEYS

SwitchFailed ==
    \E i \in CallsOf({"SwitchAPIKey"}) : Truthy(calls[i].ret)

FailedStepStops ==
    (pc = "wrote" /\ Signing(line))
    => /\ EnsureFailed
          => /\ CallsOf({"SwitchAPIKey"} \cup SignOps) = {}
             /\ Len(written) = 1
             /\ "error" \in DOMAIN written[1]
             /\ IF calls = <<>>
                THEN \/ written[1]["error"] = JStr(<<"client_not_initialized">>)
                     \/ raised /\ IsErrorWith(written[1], "exception:")
                ELSE /\ calls[1].op = "CreateClient"
                     /\ Truthy(calls[1].ret)
                     /\ written[1]["error"] = Decode(calls[1].ret)
       /\ SwitchFailed
          => /\ CallsOf(SignOps) = {}
             /\ calls[Len(calls)].op = "SwitchAPIKey"
             /\ written = <<("id" :> ReqId(line)) @@
                            ("error" :> Decode(calls[Len(calls)].ret))>>

\* LIB.CreateClient succeeded, LIB.SwitchAPIKey reported an error
FailedStepStopsWitness ==
    /\ pc = "wrote"
    /\ Signing(line)
    /\ Len(calls) = 2
    /\ calls[1].op = "CreateClient"
    /\ SwitchFailed
    /\ written[1]["error"] = JStr(<<"switch failed">>)

(***************************************************************************)
(* C15.  Every sign/auth call, whether it then succeeds or fails, comes    *)
(* right after a successful SwitchAPIKey call for the apiKeyIndex of the   *)
(* same request, and every SwitchAPIKey call is made for an index that is  *)
(* in the initialised set; so the backend's active key at each sign call   *)
(* is the requested, registered key.  The order holds; the index does not: *)
(* the switch is made for ctypes.c_int of the request's index.             *)
(***************************************************************************)
SignUnderRequestedKey ==
    /\ \A i \in CallsOf(SignOps) :
          /\ i > 1
          /\ calls[i - 1].op = "SwitchAPIKey"
          /\ ~Truthy(calls[i - 1].ret)
          /\ calls[i - 1].args = <<RequestKey(line)>>
          /\ \E j \in DOMAIN registrations :
                registrations[j].args[4] = RequestKey(line)
    /\ \A i \in CallsOf({"SwitchAPIKey"}) : calls[i].args[1] \in _INITIALISED_KEYS

(***************************************************************************)
(* C16.  The stored configuration of an apiKeyIndex is the four fields of  *)
(* the most recent request for that index that carried both baseUrl and    *)
(* privateKey (with chainId and accountIndex); a request carrying only one *)
(* of the two does not change it; and the initialised set changes only by  *)
(* a successful LIB.CreateClient, never by the storing itself.             *)
(***************************************************************************)
\* the request carries the four configuration fields, and int() accepts its
\* chainId and accountIndex
CarriesConfig(l) ==
    /\ Handled(l)
    /\ HasKey(l)
    /\ HasInline(ReqParams(l))
    /\ ~IntParam(ReqParams(l), "chainId").raised
    /\ ~IntParam(ReqParams(l), "accountIndex").raised

\* the four fields as the request carries them
FieldsOf(params) ==
    [baseUrl |-> params.d["baseUrl"],
     privateKey |-> params.d["privateKey"],
     chainId |-> params.d["chainId"],
     accountIndex |-> params.d["accountIndex"]]

\* the four fields, chainId and accountIndex as int() returns them
ConvertedFieldsOf(params) ==
    [baseUrl |-> params.d["baseUrl"],
     privateKey |-> params.d["privateKey"],
     chainId |-> JInt(PyInt(params.d["chainId"]).v),
     accountIndex |-> JInt(PyInt(params.d["accountIndex"]).v)]

\* only a request that carries a configuration changes the stored ones
OthersKeepConfig ==
    ~(pc = "read" /\ CarriesConfig(line')) => _CLIENT_CONFIG' = _CLIENT_CONFIG

\* the initialised set changes only by a successful LIB.CreateClient
StoringKeepsInitialised ==
    _INITIALISED_KEYS' # _INITIALISED_KEYS
    => /\ calls' # <<>>
       /\ calls'[1].op = "CreateClient"
       /\ ~Truthy(calls'[1].ret)
       /\ _INITIALISED_KEYS' = _INITIALISED_KEYS \cup {RequestKey(line')}

\* as stated: the stored configuration equals the request's four fields.
\* Refuted by a chainId given as "2" or as 1.5: int() of it is stored.
StoredIsLastFields ==
    [][/\ (pc = "read" /\ CarriesConfig(line'))
          => _CLIENT_CONFIG' =
                DictSet(_CLIENT_CONFIG, RequestKey(line'), FieldsOf(ReqParams(line')))
       /\ OthersKeepConfig
       /\ StoringKeepsInitialised]_vars

\* amended: ... equals baseUrl and privateKey as given and int() of chainId
\* and accountIndex
StoredIsLastConverted ==
    [][/\ (pc = "read" /\ CarriesConfig(line'))
          => _CLIENT_CONFIG' =
                DictSet(_CLIENT_CONFIG, RequestKey(line'),
                        ConvertedFieldsOf(ReqParams(line')))
       /\ OthersKeepConfig
       /\ StoringKeepsInitialised]_vars

\* index 0 was registered with one configuration; a later request replaced it
StoredIsLastConvertedWitness ==
    /\ pc = "wrote"
    /\ CarriesConfig(line)
    /\ RequestKey(line) = 0
    /\ 0 \in DOMAIN registrations
    /\ registrations[0].config["baseUrl"] = UrlX
    /\ ReqParams(line).d["baseUrl"] = UrlY
    /\ ReqParams(line).d["chainId"] = JStr(<<"2">>)
    /\ _CLIENT_CONFIG[0] =
          [baseUrl |-> UrlY, privateKey |-> PrivateKey, chainId |-> JInt(2),
           accountIndex |-> JInt(5)]

(***************************************************************************)
(* C17.  The configuration of an apiKeyIndex is immutable once the         *)
(* LIB.CreateClient call for that index has read it: no later request      *)
(* changes it, so the stored configuration of every initialised index is   *)
(* the one the backend was registered with.  The code replaces the stored  *)
(* configuration whenever a request carries one, initialised or not, and   *)
(* does not register again.                                                *)
(***************************************************************************)
\* as stated
RegisteredConfigKept ==
    \A k \in _INITIALISED_KEYS :
        /\ k \in DOMAIN registrations
        /\ _CLIENT_CONFIG[k] = registrations[k].config

\* amended: the index is registered with the configuration stored at that
\* moment; afterwards only a request for that index that carries a
\* configuration changes the stored one, and it does so without a further
\* LIB.CreateClient call, the registration staying what it was
RegisteredConfigReplaceable ==
    [][\A k \in _INITIALISED_KEYS' :
          IF k \in _INITIALISED_KEYS
          THEN /\ registrations'[k] = registrations[k]
               /\ _CLIENT_CONFIG'[k] # _CLIENT_CONFIG[k]
                  => /\ pc = "read"
                     /\ CarriesConfig(line')
                     /\ RequestKey(line') = k
                     /\ NoCreate(calls')
          ELSE /\ _CLIENT_CONFIG'[k] = registrations'[k].config
               /\ registrations'[k].args = CreateArgs(k, _CLIENT_CONFIG'[k])
               /\ calls'[1].args = registrations'[k].args]_vars

\* a signature made for index 0 after its stored configuration was replaced:
\* the backend still holds the registration made with the first one
RegisteredConfigReplaceableWitness ==
    /\ pc = "wrote"
    /\ Signing(line)
    /\ HasKey(line) /\ RequestKey(line) = 0
    /\ 0 \in _INITIALISED_KEYS
    /\ _CLIENT_CONFIG[0] # registrations[0].config
    /\ NoCreate(calls)
    /\ CallsOf(SignOps) # {}
    /\ "result" \in DOMAIN written[1]

(***************************************************************************)
(* C18.  The registry only grows: an apiKeyIndex that has a stored         *)
(* configuration keeps having one and an initialised index stays           *)
(* initialised, also when the request that stored or initialised it goes   *)
(* on to fail at SwitchAPIKey, at the sign call or with an exception.      *)
(***************************************************************************)
RegistryGrows ==
    [][/\ DOMAIN _CLIENT_CONFIG \subseteq DOMAIN _CLIENT_CONFIG'
       /\ _INITIALISED_KEYS \subseteq _INITIALISED_KEYS'
       /\ (pc = "read" /\ CarriesConfig(line'))
          => RequestKey(line') \in DOMAIN _CLIENT_CONFIG'
       /\ (calls' # <<>> /\ calls'[1].op = "CreateClient" /\ ~Truthy(calls'[1].ret))
          => RequestKey(line') \in _INITIALISED_KEYS']_vars

\* the request stored and initialised index 1, then its sign call failed,
\* index 0 having been initialised before
RegistryGrowsWitness ==
    /\ pc = "wrote"
    /\ Signing(line)
    /\ CarriesConfig(line)
    /\ RequestKey(line) = 1
    /\ Len(calls) = 3
    /\ calls[1].op = "CreateClient"
    /\ written = <<("id" :> JInt(7)) @@ ("error" :> JStr(<<"sign failed">>))>>
    /\ _INITIALISED_KEYS = {0, 1}
    /\ DOMAIN _CLIENT_CONFIG = {0, 1}

(***************************************************************************)
(* C19.  A request that carries both baseUrl and privateKey but lacks      *)
(* chainId or accountIndex, or has a non-integer value for one, is         *)
(* answered with an exception: error and has no effect: the stored         *)
(* configurations, the initialised set and the backend are left as they    *)
(* were, also when the index had a configuration or was initialised.       *)
(***************************************************************************)
\* the request carries baseUrl and privateKey
CarriesBoth(l) == Handled(l) /\ HasInline(ReqParams(l))

\* chainId or accountIndex is missing or is no JSON integer
NotAnInteger(params, name) ==
    name \notin DOMAIN params.d \/ params.d[name].t # "int"

\* chainId or accountIndex is missing or is a value int() raises on
IntRejects(params, name) == IntParam(params, name).raised

RefusedWithoutEffect ==
    /\ raised'
    /\ written' = <<("id" :> ReqId(line')) @@ ("error" :> written'[1]["error"])>>
    /\ IsErrorWith(written'[1], "exception:")
    /\ calls' = <<>>
    /\ _CLIENT_CONFIG' = _CLIENT_CONFIG
    /\ _INITIALISED_KEYS' = _INITIALISED_KEYS

\* as stated.  Refuted by a chainId given as "2" or as 1.5: int() accepts
\* both, and the configuration is stored.
NonIntegerConfigRefused ==
    [][(/\ pc = "read"
        /\ CarriesBoth(line')
        /\ \/ NotAnInteger(ReqParams(line'), "chainId")
           \/ NotAnInteger(ReqParams(line'), "accountIndex"))
       => RefusedWithoutEffect]_vars

\* amended: ... or has for one a value that int() raises on
UnconvertibleConfigRefused ==
    [][(/\ pc = "read"
        /\ CarriesBoth(line')
        /\ \/ IntRejects(ReqParams(line'), "chainId")
           \/ IntRejects(ReqParams(line'), "accountIndex"))
       => RefusedWithoutEffect]_vars

\* index 0 is initialised; a request for it with chainId "abc" was refused
UnconvertibleConfigRefusedWitness ==
    /\ pc = "wrote"
    /\ CarriesBoth(line)
    /\ HasKey(line) /\ RequestKey(line) = 0
    /\ "chainId" \in DOMAIN ReqParams(line).d
    /\ ReqParams(line).d["chainId"] = JStr(<<"abc">>)
    /\ 0 \in _INITIALISED_KEYS
    /\ _CLIENT_CONFIG[0] = registrations[0].config
    /\ raised
    /\ calls = <<>>

(***************************************************************************)
(* C20.  A create_client request never calls SwitchAPIKey or a sign/auth   *)
(* function: its only possible backend call is one LIB.CreateClient, so it *)
(* leaves the backend's active key as it was, whatever its outcome.        *)
(***************************************************************************)
CreateClientOnlyCreates ==
    (IsRequest(line) /\ ReqMethod(line) = JStr(<<"create_client">>))
    => /\ CallsOf({"SwitchAPIKey"} \cup SignOps) = {}
       /\ Len(calls) <= 1
       /\ calls # <<>> => calls[1].op = "CreateClient"

\* a create_client that registered index 1 while index 0 was initialised
CreateClientOnlyCreatesWitness ==
    /\ pc = "wrote"
    /\ IsRequest(line)
    /\ ReqMethod(line) = JStr(<<"create_client">>)
    /\ Len(calls) = 1
    /\ calls[1].op = "CreateClient"
    /\ ~Truthy(calls[1].ret)
    /\ _INITIALISED_KEYS = {0, 1}
    /\ written = <<("id" :> JInt(7)) @@ ("result" :> JStr(<<"ok">>))>>

(***************************************************************************)
(* C14.  Requests are processed strictly one at a time: the backend calls  *)
(* and the registry updates of a request and the writing of its response   *)
(* are complete before the next line is read, so the backend calls of two  *)
(* requests are never interleaved.  Checked on the statement-by-statement  *)
(* loop.                                                                   *)
(***************************************************************************)
OneAtATime ==
    /\ \A i \in 2..Len(trace) :
          IF trace[i].kind = "read"
          THEN /\ trace[i - 1].kind \in {"write", "skip"}
               /\ trace[i].req = trace[i - 1].req + 1
          ELSE trace[i].req = trace[i - 1].req
    /\ (pc = "read" /\ trace # <<>>)
       => /\ trace[Len(trace)].kind \in {"write", "skip"}
          /\ calls = in_progress.calls
          /\ _CLIENT_CONFIG = in_progress.cfg
          /\ _INITIALISED_KEYS = in_progress.init
          /\ written = in_progress.out

\* the second request is at its LIB calls; the first one stored a
\* configuration, called LIB.CreateClient, marked the key, called on and answered
OneAtATimeWitness ==
    /\ pc = "handle"
    /\ Len(trace) >= 9
    /\ trace[1] = Event(1, "read")
    /\ trace[2] = Event(1, "store")
    /\ trace[3] = Event(1, "call")
    /\ trace[4] = Event(1, "mark")
    /\ trace[5] = Event(1, "call")
    /\ trace[6] = Event(1, "call")
    /\ trace[7] = Event(1, "write")
    /\ trace[8] = Event(2, "read")
    /\ trace[Len(trace)] = Event(2, "call")

====
